---- MODULE Spec2Model ----
(***************************************************************************)
(* Model of ThreadPool<EnablePriorityScheduling> (include/thread_pool.h):  *)
(* the work queue, the worker loop, submit_task_helper and the destructor. *)
(* Every thread is a small program counter; the mutex and the condition    *)
(* variable are modelled explicitly (holder of the mutex, workers blocked  *)
(* in cv.wait, workers notified and re-acquiring the mutex).               *)
(***************************************************************************)
EXTENDS Integers, Sequences, FiniteSets, TLC

\* ------------------------------------------------------------------ bounds
MaxThreads == 2

MaxTasks == 2

\* ------------------------------------------------------------------ state
VARIABLES
    num_threads,    \* ThreadPool::num_threads
    priorityMode,   \* template parameter EnablePriorityScheduling
    pc,             \* position of each worker thread in its loop
    mutex,          \* holder of queue_mutex
    stop,           \* ThreadPool::stop
    tasks_running,  \* ThreadPool::tasks_running
    work_queue,     \* ThreadPool::work_queue, in insertion order
    cur,            \* the worker's local work_item
    subpc,          \* position of each submit_task_helper call
    submitter,      \* the thread that is inside each submit call
    raises,         \* whether the callable of each call threw when invoked
    handle,         \* shared state of each promise/future pair
    writes,         \* number of set_value/set_exception calls per promise
    dequeued,       \* number of times each item was returned by pop
    invoked,        \* number of times each callable was invoked
    counter,        \* a counter shared by the callables (each increments it)
    dtor,           \* position of ~ThreadPool
    joined          \* number of threads the destructor has joined

vars == <<num_threads, priorityMode, pc, mutex, stop, tasks_running,
          work_queue, cur, subpc, submitter, raises, handle, writes,
          dequeued, invoked, counter, dtor, joined>>

Workers == 1..num_threads

Tasks == 1..MaxTasks

\* ------------------------------------------------------- thread identities
Free == <<"free", 0>>

External == <<"external", 0>>

Destructor == <<"destructor", 0>>

Reader == <<"reader", 0>>

Nobody == <<"nobody", 0>>

W(w) == <<"worker", w>>

S(t) == <<"submit", t>>

\* ------------------------------------------------------------- work items
\* using Priority = std::int8_t; submit_task passes priority 0
DefaultPriority == 0

\* priorities passed to submit_priority_task
Priorities == {1, 5}

NoItem == [f |-> 0, promise |-> 0, priority |-> 0]

\* faulty variant: every lambda captures the promise of the first call
WorkItemFirstPromise(f, promise, priority) ==
    [f |-> f, promise |-> 1, priority |-> priority]

\* the lambda of submit_task_helper captures f and the promise together
WorkItem(f, promise, priority) ==
    [f |-> f, promise |-> promise, priority |-> priority]

\* WorkItem::operator<
\* faulty variant: the comparison is turned round (a min-heap)
LessReversed(a, b) == a.priority > b.priority

Less(a, b) == a.priority < b.priority

\* WorkQueue::push
\* faulty variant: the new item goes to the front of the queue
pushFront(q, item) == <<item>> \o q

push(q, item) == Append(q, item)

\* faulty variant: pop() that reads top()/front() and forgets work_queue.pop()
RemoveAtKeep(q, i) == q

\* work_queue.pop() of the element pop() read
RemoveAt(q, i) == SubSeq(q, 1, i - 1) \o SubSeq(q, i + 1, Len(q))

\* faulty variant: the FIFO queue read with back() instead of front()
PopIndexesBack(q, prio) ==
    IF prio
    THEN {i \in 1..Len(q) : \A j \in 1..Len(q) : ~Less(q[i], q[j])}
    ELSE {i \in 1..Len(q) : i = Len(q)}

\* indexes pop() may take: front() of std::queue, top() of
\* std::priority_queue (no element is Less than it; ties unspecified)
PopIndexes(q, prio) ==
    IF prio
    THEN {i \in 1..Len(q) : \A j \in 1..Len(q) : ~Less(q[i], q[j])}
    ELSE {i \in 1..Len(q) : i = 1}

\* WorkQueue::pop: the set of <<item returned, queue left>>
pop(q, prio) == {<<q[i], RemoveAt(q, i)>> : i \in PopIndexes(q, prio)}

\* WorkQueue::empty
empty(q) == Len(q) = 0

\* ---------------------------------------------------------------- promises
Unset == [kind |-> "none", val |-> 0, exc |-> "none"]

Pending == [kind |-> "pending", val |-> 0, exc |-> "none"]

\* what the callable of call f returns, and what it throws
Ret(f) == f

\* faulty variant: a catch (...) that stores a value instead of the exception
InvokeSwallow(f, throws) == [kind |-> "value", val |-> Ret(f), exc |-> "none"]

\* std::invoke(f, args...): the value returned or the exception thrown
Invoke(f, throws) ==
    IF throws THEN [kind |-> "failure", val |-> f, exc |-> "task"]
                 ELSE [kind |-> "value", val |-> Ret(f), exc |-> "none"]

\* promise::set_value / promise::set_exception: the first one stores
\* faulty variant: the outcome is not stored in the shared state
FulfilDropped(h, outcome) == h

Fulfil(h, outcome) == IF h.kind = "pending" THEN outcome ELSE h

\* faulty variant: no try/catch around the invocation, nothing is stored on a throw
SetCallsNoCatch(f, throws) ==
    IF throws THEN <<>> ELSE <<Invoke(f, throws)>>

\* the body of the lambda, as the sequence of outcomes it stores:
\* try { set_value(invoke(f)) } catch (...) { set_exception(...) }
SetCalls(f, throws) == <<Invoke(f, throws)>>

RECURSIVE Store(_, _)
Store(h, calls) ==
    IF calls = <<>> THEN h
    ELSE Store(Fulfil(h, Head(calls)), Tail(calls))

\* work_item.task() on the shared state h of the item's promise
RunTask(h, item, throws) == Store(h, SetCalls(item.f, throws))

\* faulty variant: a promise that is dropped without abandoning its shared state
AbandonSilently(h) == h

\* ~promise on a shared state that is not ready
Abandon(h) ==
    IF h.kind = "pending"
    THEN [kind |-> "failure", val |-> 0, exc |-> "broken_promise"]
    ELSE h

\* --------------------------------------------------------- tasks_running
\* std::size_t arithmetic is modulo 2^w; the width is cut to 30 bits here so
\* that the values stay within TLC's integers (a wrap below zero gives the
\* largest value, as with 64 bits)
SizeModulus == 2^30

\* --tasks_running
Decrement(n) == (n - 1) % SizeModulus

\* ++tasks_running
Increment(n) == (n + 1) % SizeModulus

\* faulty variant: the counter is value-initialised
InitialCountZero(n) == 0

\* tasks_running{num_threads} in the constructor's initialiser list
InitialCount(n) == n % SizeModulus

\* ------------------------------------------------------------------- Init
\* state when the constructor returns: threads started, none has run yet
Init ==
    /\ num_threads \in 0..MaxThreads
    /\ priorityMode \in BOOLEAN
    /\ pc = [w \in 1..num_threads |-> "lock"]
    /\ mutex = Free
    /\ stop = FALSE
    /\ tasks_running = InitialCount(num_threads)
    /\ work_queue = <<>>
    /\ cur = [w \in 1..num_threads |-> NoItem]
    /\ subpc = [t \in Tasks |-> "new"]
    /\ submitter = [t \in Tasks |-> Nobody]
    /\ raises = [t \in Tasks |-> FALSE]
    /\ handle = [t \in Tasks |-> Unset]
    /\ writes = [t \in Tasks |-> 0]
    /\ dequeued = [t \in Tasks |-> 0]
    /\ invoked = [t \in Tasks |-> 0]
    /\ counter = 0
    /\ dtor = "alive"
    /\ joined = 0

\* ------------------------------------------------------------ queue_mutex
\* faulty variant: a lock object built without locking (std::defer_lock)
lock_deferred(m) == TRUE

\* std::unique_lock / std::lock_guard on queue_mutex: taken when it is free
lock(m) == m = Free

\* faulty variant: the worker keeps the mutex (no lock.unlock(), lock object
\* kept alive)
unlock_missing(who) == IF who[1] = "worker" THEN who ELSE Free

\* lock.unlock(), or the end of the scope of the lock object
unlock(who) == Free

\* ------------------------------------------------------------ worker loop
\* faulty variant: the wait returns whatever the queue and stop are
WaitPredAny == TRUE

\* the predicate of cv.wait
WaitPred == stop \/ ~empty(work_queue)

\* faulty variant: the thread blocks without evaluating the predicate first
WaitBlind(w) ==
    /\ pc' = [pc EXCEPT ![w] = "wait"]
    /\ mutex' = Free

\* cv.wait(lock, pred) with the mutex held: go on if pred holds, else
\* release the mutex and block, atomically
Wait(w) ==
    IF WaitPred
    THEN /\ pc' = [pc EXCEPT ![w] = "deq"]
         /\ mutex' = W(w)
    ELSE /\ pc' = [pc EXCEPT ![w] = "wait"]
         /\ mutex' = Free

\* std::unique_lock lock(queue_mutex); --tasks_running; cv.wait(lock, pred)
WorkerLock(w) ==
    /\ pc[w] = "lock"
    /\ lock(mutex)
    /\ tasks_running' = Decrement(tasks_running)
    /\ Wait(w)
    /\ UNCHANGED <<num_threads, priorityMode, stop, work_queue, cur, subpc,
                   submitter, raises, handle, writes, dequeued, invoked,
                   counter, dtor, joined>>

\* a wake-up of cv.wait that no notify caused
SpuriousWake(w) ==
    /\ pc[w] = "wait"
    /\ pc' = [pc EXCEPT ![w] = "woken"]
    /\ UNCHANGED <<num_threads, priorityMode, mutex, stop, tasks_running,
                   work_queue, cur, subpc, submitter, raises, handle, writes,
                   dequeued, invoked, counter, dtor, joined>>

\* cv.wait re-acquires the mutex after a wake-up and re-evaluates pred
WorkerWake(w) ==
    /\ pc[w] = "woken"
    /\ lock(mutex)
    /\ Wait(w)
    /\ UNCHANGED <<num_threads, priorityMode, stop, tasks_running, work_queue,
                   cur, subpc, submitter, raises, handle, writes, dequeued,
                   invoked, counter, dtor, joined>>

\* faulty variant: a worker that drains the queue before it honours stop
StopSeenDrained == stop /\ empty(work_queue)

\* the test of if (stop) after the wait
StopSeen == stop

\* faulty variant: the worker that leaves clears the flag
WorkerStopClears(w) ==
    /\ pc[w] = "deq"
    /\ mutex = W(w)
    /\ StopSeen
    /\ pc' = [pc EXCEPT ![w] = "stopped"]
    /\ mutex' = unlock(W(w))
    /\ stop' = FALSE
    /\ UNCHANGED <<num_threads, priorityMode, tasks_running, work_queue,
                   cur, subpc, submitter, raises, handle, writes, dequeued,
                   invoked, counter, dtor, joined>>

\* if (stop) return;  (the unique_lock releases the mutex)
WorkerStop(w) ==
    /\ pc[w] = "deq"
    /\ mutex = W(w)
    /\ StopSeen
    /\ pc' = [pc EXCEPT ![w] = "stopped"]
    /\ mutex' = unlock(W(w))
    /\ UNCHANGED <<num_threads, priorityMode, stop, tasks_running, work_queue,
                   cur, subpc, submitter, raises, handle, writes, dequeued,
                   invoked, counter, dtor, joined>>

\* faulty variant: the worker goes on to the action with the mutex held
WorkerDequeueLocked(w) ==
    /\ pc[w] = "deq"
    /\ mutex = W(w)
    /\ ~StopSeen
    /\ \E r \in pop(work_queue, priorityMode) :
          /\ cur' = [cur EXCEPT ![w] = r[1]]
          /\ work_queue' = r[2]
          /\ dequeued' = [dequeued EXCEPT ![r[1].promise] = @ + 1]
    /\ tasks_running' = Increment(tasks_running)
    /\ pc' = [pc EXCEPT ![w] = "exec"]
    /\ UNCHANGED <<num_threads, priorityMode, mutex, stop, subpc, submitter,
                   raises, handle, writes, invoked, counter, dtor, joined>>

\* auto work_item = work_queue.pop(); ++tasks_running; lock.unlock();
WorkerDequeue(w) ==
    /\ pc[w] = "deq"
    /\ mutex = W(w)
    /\ ~StopSeen
    /\ \E r \in pop(work_queue, priorityMode) :
          /\ cur' = [cur EXCEPT ![w] = r[1]]
          /\ work_queue' = r[2]
          /\ dequeued' = [dequeued EXCEPT ![r[1].promise] = @ + 1]
    /\ tasks_running' = Increment(tasks_running)
    /\ mutex' = unlock(W(w))
    /\ pc' = [pc EXCEPT ![w] = "exec"]
    /\ UNCHANGED <<num_threads, priorityMode, stop, subpc, submitter, raises,
                   handle, writes, invoked, counter, dtor, joined>>

\* work_item.task() is entered: the callable starts (and bumps the counter)
WorkerStart(w) ==
    /\ pc[w] = "exec"
    /\ pc' = [pc EXCEPT ![w] = "running"]
    /\ invoked' = [invoked EXCEPT ![cur[w].f] = @ + 1]
    /\ counter' = counter + 1
    /\ UNCHANGED <<num_threads, priorityMode, mutex, stop, tasks_running,
                   work_queue, cur, subpc, submitter, raises, handle, writes,
                   dequeued, dtor, joined>>

NestedBusy(w) == \E t \in Tasks : submitter[t] = W(w)

\* the callable returns or throws; the outcome goes into the promise; the
\* worker's loop iteration ends
WorkerFinish(w) ==
    /\ pc[w] = "running"
    /\ ~NestedBusy(w)
    /\ \E throws \in BOOLEAN :
          /\ raises' = [raises EXCEPT ![cur[w].f] = throws]
          /\ handle' = [handle EXCEPT ![cur[w].promise] =
                           RunTask(handle[cur[w].promise], cur[w], throws)]
          /\ writes' = [writes EXCEPT ![cur[w].promise] =
                           @ + Len(SetCalls(cur[w].f, throws))]
    /\ cur' = [cur EXCEPT ![w] = NoItem]
    /\ pc' = [pc EXCEPT ![w] = "lock"]
    /\ UNCHANGED <<num_threads, priorityMode, mutex, stop, tasks_running,
                   work_queue, subpc, submitter, dequeued, invoked, counter,
                   dtor, joined>>

\* ------------------------------------------------------ submit_task_helper
\* the threads that may call submit: any external thread while the pool is
\* not being destroyed, or a worker from inside the callable it is running
MaySubmit(who) ==
    \/ who = External /\ dtor = "alive"
    \/ \E w \in Workers : who = W(w) /\ pc[w] = "running" /\ ~NestedBusy(w)

\* the call is made: make_shared<promise>, get_future, build the lambda
SubmitCall(t, who) ==
    /\ subpc[t] = "new"
    /\ \A u \in 1..(t - 1) : subpc[u] # "new"
    /\ MaySubmit(who)
    /\ handle' = [handle EXCEPT ![t] = Pending]
    /\ submitter' = [submitter EXCEPT ![t] = who]
    /\ subpc' = [subpc EXCEPT ![t] = "call"]
    /\ UNCHANGED <<num_threads, priorityMode, pc, mutex, stop, tasks_running,
                   work_queue, cur, raises, writes, dequeued, invoked,
                   counter, dtor, joined>>

\* std::lock_guard lock(queue_mutex);  (calls are numbered in the order in
\* which they take the mutex)
SubmitLock(t) ==
    /\ subpc[t] = "call"
    /\ \A u \in 1..(t - 1) : subpc[u] # "call"
    /\ lock(mutex)
    /\ mutex' = S(t)
    /\ subpc' = [subpc EXCEPT ![t] = "locked"]
    /\ UNCHANGED <<num_threads, priorityMode, pc, stop, tasks_running,
                   work_queue, cur, submitter, raises, handle, writes,
                   dequeued, invoked, counter, dtor, joined>>

\* priorities a call can pass: submit_task passes 0; submit_priority_task
\* compiles only when EnablePriorityScheduling
CallPriorities == IF priorityMode THEN {DefaultPriority} \cup Priorities
                                  ELSE {DefaultPriority}

\* work_queue.push({work_item, priority}); the lock_guard releases the mutex
SubmitPush(t) ==
    /\ subpc[t] = "locked"
    /\ mutex = S(t)
    /\ \E p \in CallPriorities : work_queue' = push(work_queue, WorkItem(t, t, p))
    /\ mutex' = unlock(S(t))
    /\ subpc' = [subpc EXCEPT ![t] = "notify"]
    /\ UNCHANGED <<num_threads, priorityMode, pc, stop, tasks_running, cur,
                   submitter, raises, handle, writes, dequeued, invoked,
                   counter, dtor, joined>>

Waiting == {w \in Workers : pc[w] = "wait"}

\* faulty variant: submit without the cv.notify_one()
notify_none(p) == {p}

\* faulty variant: every blocked thread is woken
notify_every(p) ==
    {[w \in DOMAIN p |-> IF p[w] = "wait" THEN "woken" ELSE p[w]]}

\* condition_variable::notify_one: one blocked thread, if any, is woken
notify_one(p) ==
    IF Waiting = {} THEN {p}
    ELSE {[p EXCEPT ![w] = "woken"] : w \in Waiting}

\* faulty variant: the destructor without its cv.notify_all()
notify_all_lost(p) == p

\* condition_variable::notify_all
notify_all(p) == [w \in DOMAIN p |-> IF p[w] = "wait" THEN "woken" ELSE p[w]]

\* cv.notify_one(); return result;
SubmitNotify(t) ==
    /\ subpc[t] = "notify"
    /\ pc' \in notify_one(pc)
    /\ subpc' = [subpc EXCEPT ![t] = "done"]
    /\ submitter' = [submitter EXCEPT ![t] = Nobody]
    /\ UNCHANGED <<num_threads, priorityMode, mutex, stop, tasks_running,
                   work_queue, cur, raises, handle, writes,
                   dequeued, invoked, counter, dtor, joined>>

\* ------------------------------------------------------- get_tasks_running
\* std::lock_guard lock(queue_mutex); by an external thread
ReaderLock ==
    /\ dtor = "alive"
    /\ lock(mutex)
    /\ mutex' = Reader
    /\ UNCHANGED <<num_threads, priorityMode, pc, stop, tasks_running,
                   work_queue, cur, subpc, submitter, raises, handle, writes,
                   dequeued, invoked, counter, dtor, joined>>

\* the value get_tasks_running returns, read with the mutex held
get_tasks_running == tasks_running

\* return tasks_running;  (the lock_guard releases the mutex)
ReaderReturn ==
    /\ mutex = Reader
    /\ mutex' = unlock(Reader)
    /\ UNCHANGED <<num_threads, priorityMode, pc, stop, tasks_running,
                   work_queue, cur, subpc, submitter, raises, handle, writes,
                   dequeued, invoked, counter, dtor, joined>>

\* ----------------------------------------------------------- ~ThreadPool
\* the owner destroys the pool once no other thread is inside a call on it
DtorBegin ==
    /\ dtor = "alive"
    /\ \A t \in Tasks : submitter[t] # External
    /\ mutex # Reader
    /\ dtor' = "lock"
    /\ UNCHANGED <<num_threads, priorityMode, pc, mutex, stop, tasks_running,
                   work_queue, cur, subpc, submitter, raises, handle, writes,
                   dequeued, invoked, counter, joined>>

\* std::lock_guard lock(queue_mutex);
DtorLock ==
    /\ dtor = "lock"
    /\ lock(mutex)
    /\ mutex' = Destructor
    /\ dtor' = "locked"
    /\ UNCHANGED <<num_threads, priorityMode, pc, stop, tasks_running,
                   work_queue, cur, subpc, submitter, raises, handle, writes,
                   dequeued, invoked, counter, joined>>

\* stop = true;  (the lock_guard releases the mutex)
DtorSetStop ==
    /\ dtor = "locked"
    /\ mutex = Destructor
    /\ stop' = TRUE
    /\ mutex' = unlock(Destructor)
    /\ dtor' = "notify"
    /\ UNCHANGED <<num_threads, priorityMode, pc, tasks_running, work_queue,
                   cur, subpc, submitter, raises, handle, writes, dequeued,
                   invoked, counter, joined>>

\* cv.notify_all();
DtorNotifyAll ==
    /\ dtor = "notify"
    /\ pc' = notify_all(pc)
    /\ dtor' = "join"
    /\ UNCHANGED <<num_threads, priorityMode, mutex, stop, tasks_running,
                   work_queue, cur, subpc, submitter, raises, handle, writes,
                   dequeued, invoked, counter, joined>>

\* faulty variant: threads detached instead of joined
JoinReturnsAtOnce(p, i) == TRUE

\* thread.join() returns once that thread has returned from its loop
JoinReturns(p, i) == p[i] = "stopped"

\* for (auto& thread : threads) thread.join();
DtorJoin ==
    /\ dtor = "join"
    /\ joined < num_threads
    /\ JoinReturns(pc, joined + 1)
    /\ joined' = joined + 1
    /\ UNCHANGED <<num_threads, priorityMode, pc, mutex, stop, tasks_running,
                   work_queue, cur, subpc, submitter, raises, handle, writes,
                   dequeued, invoked, counter, dtor>>

Queued(q) == {q[i].promise : i \in 1..Len(q)}

\* the members are destroyed: every item left in work_queue is destroyed,
\* and with it the last owner of its promise
DestroyQueue(h, q) ==
    [t \in DOMAIN h |-> IF t \in Queued(q) THEN Abandon(h[t])
                                           ELSE h[t]]

\* the destructor body is over; the members go, then the destructor returns
DtorMembers ==
    /\ dtor = "join"
    /\ joined = num_threads
    /\ handle' = DestroyQueue(handle, work_queue)
    /\ work_queue' = <<>>
    /\ dtor' = "destroyed"
    /\ UNCHANGED <<num_threads, priorityMode, pc, mutex, stop, tasks_running,
                   cur, subpc, submitter, raises, writes, dequeued, invoked,
                   counter, joined>>

\* ------------------------------------------------------------------- Next
Submitters == {External} \cup {W(w) : w \in Workers}

Worker(w) ==
    \/ WorkerLock(w)
    \/ SpuriousWake(w)
    \/ WorkerWake(w)
    \/ WorkerStop(w)
    \/ WorkerDequeue(w)
    \/ WorkerStart(w)
    \/ WorkerFinish(w)

Submit(t) ==
    \/ \E who \in Submitters : SubmitCall(t, who)
    \/ SubmitLock(t)
    \/ SubmitPush(t)
    \/ SubmitNotify(t)

Reading ==
    \/ ReaderLock
    \/ ReaderReturn

Teardown ==
    \/ DtorBegin
    \/ DtorLock
    \/ DtorSetStop
    \/ DtorNotifyAll
    \/ DtorJoin
    \/ DtorMembers

Next ==
    \/ \E w \in Workers : Worker(w)
    \/ \E t \in Tasks : Submit(t)
    \/ Reading
    \/ Teardown

Spec == Init /\ [][Next]_vars

\* ---------------------------------------------------------------- fairness
\* Every thread that can take a step eventually takes it (the scheduler is
\* preemptive), every thread contending for the mutex eventually gets it,
\* and a callable that was started returns.  Nothing forces a new submit
\* call, a spurious wake-up or the start of the destructor.
WorkerFair(w) ==
    /\ SF_vars(w \in Workers /\ WorkerLock(w))
    /\ SF_vars(w \in Workers /\ WorkerWake(w))
    /\ WF_vars(w \in Workers /\ WorkerStop(w))
    /\ WF_vars(w \in Workers /\ WorkerDequeue(w))
    /\ WF_vars(w \in Workers /\ WorkerStart(w))
    /\ WF_vars(w \in Workers /\ WorkerFinish(w))

SubmitFair(t) ==
    /\ SF_vars(SubmitLock(t))
    /\ WF_vars(SubmitPush(t))
    /\ WF_vars(SubmitNotify(t))

TeardownFair ==
    /\ SF_vars(DtorLock)
    /\ WF_vars(DtorSetStop)
    /\ WF_vars(DtorNotifyAll)
    /\ WF_vars(DtorJoin)
    /\ WF_vars(DtorMembers)

Fairness ==
    /\ \A w \in 1..MaxThreads : WorkerFair(w)
    /\ \A t \in Tasks : SubmitFair(t)
    /\ WF_vars(ReaderReturn)
    /\ TeardownFair

FairSpec == Init /\ [][Next]_vars /\ Fairness

\* a worker thread is scheduled while it is in the pool's own code; the
\* action it runs (work_item.task()) need not start or return
WorkerLoopFair(w) ==
    /\ SF_vars(w \in Workers /\ WorkerLock(w))
    /\ SF_vars(w \in Workers /\ WorkerWake(w))
    /\ WF_vars(w \in Workers /\ WorkerStop(w))
    /\ WF_vars(w \in Workers /\ WorkerDequeue(w))

PoolCodeFairness ==
    /\ \A w \in 1..MaxThreads : WorkerLoopFair(w)
    /\ \A t \in Tasks : SubmitFair(t)
    /\ WF_vars(ReaderReturn)
    /\ TeardownFair

\* one worker's actions return, the other workers may be stuck in theirs
OneWorkerFairness ==
    /\ WorkerFair(1)
    /\ \A w \in 2..MaxThreads : WorkerLoopFair(w)
    /\ \A t \in Tasks : SubmitFair(t)
    /\ WF_vars(ReaderReturn)
    /\ TeardownFair

OneWorkerSpec == Init /\ [][Next]_vars /\ OneWorkerFairness

\* the pool with actions that may run for ever
NonTerminatingSpec == Init /\ [][Next]_vars /\ PoolCodeFairness

\* ------------------------------------------------------- state predicates
Submitted(t) == subpc[t] # "new"

Pushed(t) == subpc[t] \in {"notify", "done"}

Resolved(t) == handle[t].kind \in {"value", "failure"}

\* the handle holds the outcome of a callable (not a broken promise)
Delivered(t) == Resolved(t) /\ handle[t].exc # "broken_promise"

\* the callable of t was invoked and the worker's loop iteration is over
Finished(t) == invoked[t] >= 1 /\ \A w \in Workers : cur[w].f # t

\* the workers whose local work_item is the item of call t
\* the worker has dequeued an item, released the mutex and not yet come back
\* to the top of its loop
Executing(w) == pc[w] \in {"exec", "running"}

\* a push has released the mutex and its notify_one is still to be issued
NotifyPending == \E t \in Tasks : subpc[t] = "notify"

\* the threads that are between taking queue_mutex and releasing it
InCritical ==
    {W(w) : w \in {v \in Workers : pc[v] = "deq"}}
        \cup {S(t) : t \in {u \in Tasks : subpc[u] = "locked"}}
        \cup (IF dtor = "locked" THEN {Destructor} ELSE {})
        \cup (IF mutex = Reader THEN {Reader} ELSE {})

\* the number of items of the queue that belong to call t
Insertions(t) ==
    Cardinality({i \in 1..Len(work_queue) : work_queue[i].promise = t})

\* call t was made by an action running on a worker and waits for the mutex
Nested(t) ==
    /\ subpc[t] = "call"
    /\ \E w \in Workers : submitter[t] = W(w) /\ pc[w] = "running"

Holders(t) == {w \in Workers : cur[w].f = t}

\* ------------------------------------------------------------------ claims

\* C1 (as amended): in a pool of at least one worker, as long as teardown
\* does not begin, the handle of every submitted task eventually resolves.
C1_EveryHandleResolves ==
    \A t \in Tasks :
        (num_threads >= 1 /\ Submitted(t)) ~> (Resolved(t) \/ dtor # "alive")

\* C1 as stated: for any thread_count the constructor accepts (0 included),
\* the handle of every submitted task eventually resolves unless teardown
\* begins.
C1_Original ==
    \A t \in Tasks : Submitted(t) ~> (Resolved(t) \/ dtor # "alive")

\* C1 witness: every task was submitted to a live pool and every handle
\* holds the outcome of its callable.
C1_Witness ==
    /\ num_threads >= 1
    /\ dtor = "alive"
    /\ \A t \in Tasks : subpc[t] = "done" /\ Delivered(t)

\* C2: every item is popped at most once and its callable invoked at most
\* once; from its pop to the end of its run the item is the work_item of
\* exactly one worker, which is about to invoke it or is running it, and
\* only that worker invokes it; when every submitted task has delivered its
\* outcome the shared counter equals the number of tasks.
C2_ExactlyOnce ==
    /\ [](\A t \in Tasks :
             /\ dequeued[t] <= 1 /\ invoked[t] <= 1
             /\ Finished(t) => (dequeued[t] = 1 /\ invoked[t] = 1)
             /\ (dequeued[t] = 1 /\ ~Finished(t)) =>
                   \E w \in Workers :
                       /\ Holders(t) = {w}
                       /\ pc[w] = IF invoked[t] = 0 THEN "exec" ELSE "running"
             /\ dequeued[t] = 0 => (invoked[t] = 0 /\ Holders(t) = {}))
    /\ []((\A t \in Tasks : Submitted(t) => Delivered(t)) =>
             counter = Cardinality({t \in Tasks : Submitted(t)}))
    /\ [][\A t \in Tasks :
             /\ dequeued'[t] # dequeued[t] =>
                   \E w \in Workers : pc[w] = "deq" /\ Holders(t)' = {w}
             /\ invoked'[t] # invoked[t] =>
                   \E w \in Workers :
                       /\ Holders(t) = {w} /\ Holders(t)' = {w}
                       /\ pc[w] = "exec" /\ pc'[w] = "running"
             /\ \A w \in Holders(t) :
                   w \in Holders(t)' \/ (pc[w] = "running" /\ pc'[w] = "lock")
         ]_vars

\* C2 witness: in a pool of two or more workers every task has delivered
\* its outcome and the counter equals the number of tasks.
C2_Witness ==
    /\ num_threads >= 2
    /\ \A t \in Tasks : Delivered(t) /\ invoked[t] = 1
    /\ counter = MaxTasks

\* C3: the promise of an executed item is written exactly once, with a
\* value or a failure, not before its callable has run, and the step that
\* writes it is the step in which the worker running the callable ends it.
C3_OneOutcomeOnce ==
    /\ [](\A t \in Tasks :
             /\ writes[t] <= 1
             /\ Finished(t) => (writes[t] = 1 /\ Delivered(t))
             /\ ~Finished(t) => (writes[t] = 0 /\ ~Delivered(t)))
    /\ [][\A t \in Tasks :
             (writes'[t] # writes[t] \/ Delivered(t)' # Delivered(t)) =>
                 \E w \in Workers :
                     /\ pc[w] = "running" /\ pc'[w] = "lock"
                     /\ cur[w].f = t /\ cur[w].promise = t
                     /\ handle[t] = Pending
                     /\ writes'[t] = writes[t] + 1
         ]_vars

\* C3 witness: one executed item holds a value and another a failure.
C3_Witness ==
    \E a, b \in Tasks :
        /\ Finished(a) /\ handle[a].kind = "value" /\ writes[a] = 1
        /\ Finished(b) /\ handle[b].kind = "failure" /\ writes[b] = 1

\* C4: a callable that throws leaves the failure in its own handle, a
\* callable that returns leaves a value; no worker has stopped while stop is
\* false; with all tasks run, the failures number the callables that threw.
C4_FailureIsolated ==
    /\ \A t \in Tasks :
          Finished(t) =>
              handle[t] = [kind |-> IF raises[t] THEN "failure" ELSE "value",
                           val |-> t,
                           exc |-> IF raises[t] THEN "task" ELSE "none"]
    /\ ~stop => \A w \in Workers : pc[w] # "stopped"
    /\ (\A t \in Tasks : Finished(t)) =>
          Cardinality({t \in Tasks : handle[t].kind = "failure"}) =
              Cardinality({t \in Tasks : raises[t]})

\* C4 witness: the only worker of a pool ran a callable that threw and
\* then ran a later item to a value.
C4_Witness ==
    /\ num_threads = 1
    /\ ~stop
    /\ \E a, b \in Tasks :
          /\ a < b
          /\ Finished(a) /\ raises[a] /\ handle[a].kind = "failure"
          /\ Finished(b) /\ ~raises[b] /\ handle[b].kind = "value"

\* C5: a handle that holds an outcome holds the outcome of the callable of
\* its own submit call; with every task returning, the values are 1..n.
C5_OwnOutcome ==
    /\ \A t \in Tasks :
          Delivered(t) => (handle[t].val = Ret(t) /\ Finished(t))
    /\ (\A t \in Tasks : handle[t].kind = "value") =>
          {handle[t].val : t \in Tasks} = Tasks

\* C5 witness: with two workers, a later call's item finished first and its
\* handle holds its own value while the earlier call's handle is pending.
C5_Witness ==
    /\ num_threads >= 2
    /\ \E a, b \in Tasks :
          /\ a < b
          /\ Pushed(a) /\ handle[a] = Pending
          /\ Finished(b) /\ handle[b].kind = "value" /\ handle[b].val = b

\* C6 (as amended): an item still queued when stop is set is never run and
\* its handle stays pending during teardown; when the destructor destroys
\* the queue the handle resolves to a broken_promise failure.
C6_AbandonedThenBroken ==
    \A t \in Tasks :
        (Pushed(t) /\ dequeued[t] = 0 /\ stop) =>
            /\ invoked[t] = 0
            /\ writes[t] = 0
            /\ dtor # "destroyed" =>
                  (handle[t] = Pending /\ t \in Queued(work_queue))
            /\ dtor = "destroyed" =>
                  handle[t] = [kind |-> "failure", val |-> 0,
                               exc |-> "broken_promise"]

\* C6 as stated: once teardown has begun, the handle of an item that was
\* not dequeued holds no value and no failure, also after teardown has
\* completed and the queue has been destroyed.
C6_Original ==
    \A t \in Tasks :
        (Pushed(t) /\ dequeued[t] = 0 /\ dtor # "alive") => ~Resolved(t)

\* C6 witness: teardown has completed and the handle of an item that was
\* never dequeued holds the broken_promise failure.
C6_Witness ==
    /\ dtor = "destroyed"
    /\ \E t \in Tasks :
          /\ Pushed(t) /\ dequeued[t] = 0
          /\ handle[t].kind = "failure" /\ handle[t].exc = "broken_promise"

\* C7: in a step taken with stop set no item is popped, a worker that holds
\* the mutex after its wait can only stop, a stopped worker stays stopped,
\* and the items in the queue have not been and are not invoked.
C7_NoDequeueAfterStop ==
    [][stop =>
          /\ dequeued' = dequeued
          /\ \A w \in Workers :
                /\ pc[w] = "stopped" => pc'[w] = "stopped"
                /\ pc[w] = "deq" => pc'[w] \in {"deq", "stopped"}
          /\ \A t \in Queued(work_queue) :
                invoked[t] = 0 /\ invoked'[t] = 0]_vars

\* C7 witness: a worker has stopped while the queue still holds an item.
C7_Witness ==
    /\ stop
    /\ work_queue # <<>>
    /\ \E w \in Workers : pc[w] = "stopped"

\* C8: once the destructor has been entered it eventually returns.
C8_TeardownReturns == (dtor # "alive") ~> (dtor = "destroyed")

\* C8 witness: the destructor of a pool of two or more workers has returned
\* although items were still queued and others had been run.
C8_Witness ==
    /\ dtor = "destroyed"
    /\ num_threads >= 2
    /\ \E t, u \in Tasks : handle[t].exc = "broken_promise" /\ Delivered(u)

\* C9: when every join has returned (and from then on) every worker has
\* stopped and every item that was popped has run to its end with its
\* outcome in its handle.
C9_AllDoneAtReturn ==
    (dtor = "destroyed" \/ (dtor = "join" /\ joined = num_threads)) =>
        /\ \A w \in Workers : pc[w] = "stopped"
        /\ \A t \in Tasks : dequeued[t] >= 1 => (Finished(t) /\ Delivered(t))

\* C9 witness: the joins are over in a pool whose workers ran every task.
C9_Witness ==
    /\ dtor = "join"
    /\ joined = num_threads
    /\ num_threads >= 1
    /\ \A t \in Tasks : dequeued[t] = 1 /\ Delivered(t)

\* C10: in FIFO mode items leave the queue in the order they were pushed
\* (task numbers follow the push order): a popped item has no unpopped
\* predecessor, and the queue holds the items in push order.
C10_FifoOrder ==
    ~priorityMode =>
        /\ \A a, b \in Tasks : (a < b /\ dequeued[b] >= 1) => dequeued[a] >= 1
        /\ \A i, j \in 1..Len(work_queue) :
              i < j => work_queue[i].promise < work_queue[j].promise

\* C10 witness: FIFO mode, two items were queued together and two workers
\* popped one each.
C10_Witness ==
    /\ ~priorityMode
    /\ num_threads >= 2
    /\ \E a, b \in Tasks :
          /\ a < b
          /\ dequeued[a] = 1 /\ dequeued[b] = 1
          /\ cur[1].f = b /\ cur[2].f = a
          /\ pc[1] = "exec" /\ pc[2] = "exec"

\* C11 as stated: in FIFO mode, for any number of workers, an action starts
\* executing only after every action submitted before it has started.
C11_Original ==
    ~priorityMode =>
        \A a, b \in Tasks : (a < b /\ invoked[b] >= 1) => invoked[a] >= 1

\* C11: in FIFO mode, for any number of workers, an action starts executing
\* only after every item submitted before it has been dequeued; with a single
\* worker it starts only after every action submitted before it has started.
C11_StartAfterEarlierDequeued ==
    ~priorityMode =>
        \A a, b \in Tasks :
            (a < b /\ invoked[b] >= 1) =>
                /\ dequeued[a] >= 1
                /\ num_threads = 1 => invoked[a] >= 1

\* C11 witness: FIFO mode, two workers; the later item's action is running
\* while the earlier item, dequeued first, has not started yet.
C11_Witness ==
    /\ ~priorityMode
    /\ num_threads >= 2
    /\ \E a, b \in Tasks :
          /\ a < b
          /\ invoked[b] = 1 /\ invoked[a] = 0 /\ dequeued[a] = 1
          /\ \E v, w \in Workers :
                /\ pc[v] = "exec" /\ cur[v].f = a
                /\ pc[w] = "running" /\ cur[w].f = b

\* C12: in priority mode every dequeue removes an item of the queue whose
\* priority is at least the priority of every item in the queue at that
\* moment, and leaves the other items in the queue.
C12_HighestPriorityFirst ==
    [][priorityMode =>
        \A w \in Workers :
            (pc[w] = "deq" /\ pc'[w] = "exec") =>
                /\ \A i \in 1..Len(work_queue) :
                      cur'[w].priority >= work_queue[i].priority
                /\ \E i \in 1..Len(work_queue) :
                      /\ work_queue[i] = cur'[w]
                      /\ work_queue' = RemoveAt(work_queue, i)]_vars

\* C12 witness: priority mode; an item of priority 5 has just been dequeued
\* while an item of priority 1 submitted before it is still in the queue.
C12_Witness ==
    /\ priorityMode
    /\ \E w \in Workers :
          /\ pc[w] = "exec"
          /\ cur[w].priority = 5
          /\ \E i \in 1..Len(work_queue) :
                /\ work_queue[i].priority = 1
                /\ work_queue[i].promise < cur[w].promise

\* C13: in FIFO mode with one worker, when the action of an item starts,
\* every item submitted before it has finished its action and has its
\* outcome recorded in its handle.
C13_SingleWorkerCompletionOrder ==
    (~priorityMode /\ num_threads = 1) =>
        \A a, b \in Tasks :
            (a < b /\ invoked[b] >= 1) => (Finished(a) /\ Delivered(a))

\* C13 witness: FIFO mode, one worker; the second item's action is running
\* and the first item's outcome is recorded.
C13_Witness ==
    /\ ~priorityMode
    /\ num_threads = 1
    /\ pc[1] = "running"
    /\ cur[1].f = 2
    /\ Delivered(1)

\* C14 as stated: whenever get_tasks_running reads the counter (it holds the
\* mutex), the value it returns is the number of workers executing an action.
C14_CountsExecuting ==
    mutex = Reader =>
        get_tasks_running = Cardinality({w \in Workers : Executing(w)})

\* C15: a submit call never waits for the pool to make progress: no worker
\* holds the mutex while it executes an action or is blocked in the wait, and
\* every call that has been made returns its handle, even when the actions
\* the workers execute never terminate and whatever the queue holds.
C15_SubmitReturns ==
    /\ [](\A w \in Workers :
            pc[w] \in {"exec", "running", "wait", "woken"} => mutex # W(w))
    /\ \A t \in Tasks : (subpc[t] = "call") ~> (subpc[t] = "done")

\* C15 witness: every worker is executing an action, an item is waiting in
\* the queue, and the call that queued it has returned.
C15_Witness ==
    /\ num_threads >= 1
    /\ \A w \in Workers : pc[w] = "running"
    /\ \E i \in 1..Len(work_queue) : subpc[work_queue[i].promise] = "done"

\* C16: stop is false from construction until the destructor sets it; it
\* changes only from false to true, only in the destructor's step made with
\* the mutex held, and is never set back; no submit step and no worker step
\* changes it.
C16_StopSetOnceByTeardown ==
    /\ [](dtor \in {"alive", "lock", "locked"} => ~stop)
    /\ [][stop => stop']_vars
    /\ [][stop' # stop =>
            /\ ~stop /\ stop'
            /\ mutex = Destructor
            /\ dtor = "locked" /\ dtor' = "notify"
            /\ pc' = pc /\ subpc' = subpc]_vars

\* C16 witness: the destructor has just set stop while a worker is executing
\* an action.
C16_Witness ==
    /\ stop
    /\ dtor = "notify"
    /\ \E w \in Workers : pc[w] = "running"

\* C17: no worker calls pop on an empty queue: a worker past the wait holds
\* the mutex and sees stop set or the queue non-empty, and every step that
\* pops is made with the mutex held, stop false and the queue non-empty.
C17_NoPopOnEmpty ==
    /\ [](\A w \in Workers :
            pc[w] = "deq" => (mutex = W(w) /\ (stop \/ ~empty(work_queue))))
    /\ [][\A w \in Workers :
            (pc[w] = "deq" /\ pc'[w] = "exec") =>
                (mutex = W(w) /\ ~stop /\ ~empty(work_queue))]_vars

\* C17 witness: two workers were after one item; one has popped it, the
\* queue is empty again and the other, woken, has still to re-check.
C17_Witness ==
    /\ ~stop
    /\ empty(work_queue)
    /\ \E v, w \in Workers :
          /\ pc[v] = "exec"
          /\ pc[w] = "woken"

\* C18: no wake-up is lost: while stop is false and the queue is non-empty,
\* the workers are never all blocked in the wait unless the notify_one of a
\* push is still to be issued; and while the destructor does not begin, a
\* queued item is eventually dequeued provided one worker is not stuck in an
\* action that never returns.
C18_NoLostWakeup ==
    /\ []((num_threads >= 1 /\ ~stop /\ ~empty(work_queue)) =>
            ((\E w \in Workers : pc[w] # "wait") \/ NotifyPending))
    /\ \A t \in Tasks :
          (num_threads >= 1 /\ Pushed(t)) ~>
              (dequeued[t] >= 1 \/ dtor # "alive")

\* C18 witness: an item was pushed while every worker was blocked in the
\* wait; the mutex is released and the notify_one is about to be issued.
C18_Witness ==
    /\ num_threads >= 2
    /\ ~stop
    /\ ~empty(work_queue)
    /\ \A w \in Workers : pc[w] = "wait"
    /\ NotifyPending

\* C19: the queue, stop and tasks_running are read and written only by the
\* thread that holds queue_mutex, and at most one thread holds it: a thread
\* inside a locked scope is the holder, and a step that changes one of the
\* three is a step of the holder or of a worker that takes the free mutex in
\* that step (the queue's own destruction, after every thread was joined,
\* aside).
C19_SharedStateUnderMutex ==
    /\ [](InCritical \subseteq {mutex} /\ Cardinality(InCritical) <= 1)
    /\ [][(work_queue' # work_queue \/ stop' # stop
                \/ tasks_running' # tasks_running) =>
            \/ \E w \in Workers :
                  mutex = W(w) /\ pc[w] = "deq" /\ pc'[w] # pc[w]
            \/ \E t \in Tasks :
                  mutex = S(t) /\ subpc[t] = "locked" /\ subpc'[t] # subpc[t]
            \/ mutex = Destructor /\ dtor = "locked" /\ dtor' # dtor
            \/ /\ mutex = Free
               /\ \E w \in Workers :
                     pc[w] = "lock" /\ pc'[w] \in {"deq", "wait"}
            \/ /\ dtor' = "destroyed"
               /\ \A w \in Workers : pc[w] = "stopped"
               /\ mutex = Free]_vars

\* C19 witness: a worker holds the mutex before its pop while a submit call
\* and another worker are waiting for the mutex.
C19_Witness ==
    /\ \E w \in Workers : pc[w] = "deq" /\ mutex = W(w) /\ ~stop
    /\ \E t \in Tasks : subpc[t] = "call"
    /\ \E v \in Workers : pc[v] = "lock"

\* C20: a submit call inserts exactly one item and issues exactly one signal
\* that wakes at most one waiting worker, and changes nothing else: its step
\* under the mutex appends its own item behind the items already queued, its
\* last step turns at most one blocked worker into a woken one, and no step
\* of the call changes stop, tasks_running, the workers' items or the handle
\* of another call.
C20_SubmitFrame ==
    /\ [](\A t \in Tasks :
            /\ subpc[t] \in {"new", "call", "locked"} =>
                  (Insertions(t) = 0 /\ dequeued[t] = 0)
            /\ (subpc[t] \in {"notify", "done"} /\ dtor # "destroyed") =>
                  Insertions(t) + dequeued[t] = 1)
    /\ [][\A t \in Tasks :
            subpc'[t] # subpc[t] =>
                /\ stop' = stop
                /\ tasks_running' = tasks_running
                /\ cur' = cur
                /\ \A u \in Tasks \ {t} :
                      handle'[u] = handle[u] /\ subpc'[u] = subpc[u]
                /\ IF subpc[t] = "locked"
                   THEN /\ Len(work_queue') = Len(work_queue) + 1
                        /\ SubSeq(work_queue', 1, Len(work_queue)) = work_queue
                        /\ work_queue'[Len(work_queue')].promise = t
                   ELSE work_queue' = work_queue
                /\ IF subpc[t] = "notify"
                   THEN /\ Cardinality({w \in Workers : pc'[w] # pc[w]}) <= 1
                        /\ \A w \in Workers :
                              pc'[w] # pc[w] =>
                                  (pc[w] = "wait" /\ pc'[w] = "woken")
                   ELSE pc' = pc]_vars

\* C20 witness: two workers were blocked in the wait when a call returned;
\* its item is in the queue and only one of the workers was woken.
C20_Witness ==
    /\ ~stop
    /\ \E t \in Tasks : subpc[t] = "done" /\ Insertions(t) = 1
    /\ \E v, w \in Workers : pc[v] = "wait" /\ pc[w] = "woken"

\* C21: in every reachable state 0 <= tasks_running <= thread_count; the
\* unsigned counter never wraps (each change is by exactly one, up or down,
\* in the integers), and it is 0 once every worker has stopped.
C21_CounterInRange ==
    /\ [](/\ 0 <= tasks_running
          /\ tasks_running <= num_threads
          /\ (\A w \in Workers : pc[w] = "stopped") => tasks_running = 0)
    /\ [][tasks_running' # tasks_running =>
            \/ tasks_running' = tasks_running - 1
            \/ tasks_running' = tasks_running + 1]_vars

\* C21 witness: two or more workers, items were dequeued and executed (the
\* counter went down and up), every worker has stopped and the counter is 0.
C21_Witness ==
    /\ num_threads >= 2
    /\ \A w \in Workers : pc[w] = "stopped"
    /\ \E t \in Tasks : dequeued[t] = 1
    /\ tasks_running = 0

\* C22 as stated: a submit call made by an action running on a worker
\* returns, and its item is later dequeued by some worker.
C22_Original ==
    /\ \A t \in Tasks : Nested(t) ~> (subpc[t] = "done")
    /\ \A t \in Tasks : Nested(t) ~> (dequeued[t] >= 1)

\* C22: a submit call made by an action running on a worker does not
\* deadlock: the worker does not hold the mutex while its action runs, the
\* nested call takes the mutex, queues its item and returns, and the item is
\* later dequeued by some worker unless the destructor sets stop first.
C22_NestedSubmit ==
    /\ [](\A t \in Tasks : Nested(t) => mutex \notin {submitter[t]})
    /\ \A t \in Tasks : Nested(t) ~> (subpc[t] = "done")
    /\ \A t \in Tasks : Nested(t) ~> (dequeued[t] >= 1 \/ stop)

\* C22 witness: a call made by a running action has queued its item under
\* the mutex, and another worker has already dequeued that item.
C22_Witness ==
    \E t \in Tasks :
        /\ subpc[t] = "notify"
        /\ dequeued[t] = 1
        /\ \E w \in Workers : submitter[t] = W(w) /\ pc[w] = "running"

====
